---- MODULE Spec2Model ----
(***************************************************************************)
(* Model of the resumable layer upload of registry/storage (layerWriter)   *)
(* over an abstract storage driver.  Every driver call of Finish is one    *)
(* atomic step; calls of different sessions, and Write/Cancel of the same  *)
(* session, interleave between the steps (the code takes no lock).         *)
(*                                                                         *)
(*   Spec       two sessions over a driver that does not fail              *)
(*   SpecRace   two sessions that only call Finish, once each, with the    *)
(*              digest of the content they hold                            *)
(*   SpecFault  one session over a driver whose calls may fail             *)
(*   SpecRetry  two sessions that call Finish and call it again after a    *)
(*              failed driver call                                         *)
(*   SpecSink   the notification sink (grpcSink) with concurrent callers   *)
(***************************************************************************)
EXTENDS Integers, Sequences, FiniteSets, TLC

\* ---------------------------------------------------------------- bounds
MaxLen == 1
MaxBatch == 2
MaxCloses == 3

\* ------------------------------------------------------------ value sets
Sessions == {"u1", "u2"}
Repos == {"r1", "r2"}
ByteVals == {1}
\* No file at a path: a value no byte string equals.
Absent == <<-1>>
\* No digest: a value no digest equals.
NoDigest == [ver |-> "none", sum |-> -1]

RECURSIVE SeqsUpTo(_)
SeqsUpTo(n) ==
    IF n = 0 THEN {<<>>}
    ELSE LET S == SeqsUpTo(n - 1)
         IN  S \cup {Append(q, b) : q \in {x \in S : Len(x) = n - 1}, b \in ByteVals}

Contents == SeqsUpTo(MaxLen)

\* ----------------------------------------------------------- digest model
HashBase == Cardinality(ByteVals) + 1

\* The hex part of a digest: a collision-free hash of the byte string.
RECURSIVE Sha(_)
Sha(b) ==
    IF b = <<>> THEN 0
    ELSE Sha(SubSeq(b, 1, Len(b) - 1)) * HashBase + b[Len(b)]

\* A digest string "tarsum.<ver>+sha256:<hex>" as its version tag and hex part.
TarSum(ver, b) == [ver |-> ver, sum |-> Sha(b)]

FromTarArchive(b) == TarSum("v1", b)

DigestTarSumV1EmptyTar == [ver |-> "v1", sum |-> 0]

Versions == {"v0", "v1", "dev"}

GetVersionFromTarsum(d) == IF d.ver \in Versions THEN d.ver ELSE "error"

\* Mutant: the legacy version 0 passes the gate as well.
VersionSupportedLegacy(version) == version \in {"v0", "v1"}

VersionSupported(version) == version = "v1"

Verified(d, b) == TarSum(d.ver, b) = d

Digests == {FromTarArchive(c) : c \in Contents}

ClaimedDigests ==
    {[ver |-> v, sum |-> d.sum] : v \in Versions \cup {"sha256"}, d \in Digests}

\* ------------------------------------------------------ notification sink
Writers == {"w1", "w2"}
EventIDs == {"e1"}

RECURSIVE EventsUpTo(_)
EventsUpTo(n) ==
    IF n = 0 THEN {<<>>}
    ELSE LET S == EventsUpTo(n - 1)
         IN  S \cup {Append(q, e) : q \in {x \in S : Len(x) = n - 1}, e \in EventIDs}

\* The argument lists e ...Event of Write.
EventBatches == EventsUpTo(MaxBatch)

\* No Publish call in flight: a value no request equals.
NoRequest == <<[ID |-> "none"]>>

\* Write's loop: one grpcClient.Event per Event, in order.
ToGrpcEvents(e) == [i \in 1..Len(e) |-> [ID |-> e[i]]]

\* ------------------------------------------------------------------ state
VARIABLES
    data,       \* driver: content at the session's scratch path, or Absent
    updir,      \* driver: the session's upload directory exists
    blobs,      \* driver: content at blobPath(digest), or Absent
    links,      \* driver: content at layerLinkPath(repo, digest), or NoDigest
    repo,       \* the repository each session belongs to
    closed,     \* fileWriter closed (lw.Close())
    pc,         \* position of the session's Finish call
    dgst,       \* digest the verifier of the latest Finish was bound to
    canonical,  \* canonical digest computed by validateLayer
    result,     \* what the session's latest Finish call returned ("none": running)
    cresult,    \* what the session's latest Cancel call returned
    terminated, \* a Finish or Cancel of the session has returned success
    sinkClosed, \* grpcSink.closed
    conn,       \* grpcSink.conn: "open" or "closed"
    connCloses, \* number of conn.Close() calls made so far
    closeRes,   \* what the latest grpcSink.Close returned
    wpc,        \* position of each caller of grpcSink.Write
    wreq,       \* the request of the caller's Publish call in flight
    wres        \* what the caller's latest grpcSink.Write returned

sinkVars == <<sinkClosed, conn, connCloses, closeRes, wpc, wreq, wres>>

layerVars == <<data, updir, blobs, links, repo, closed, pc, dgst, canonical,
               result, cresult, terminated>>

vars == <<data, updir, blobs, links, repo, closed, pc, dgst, canonical,
          result, cresult, terminated, sinkClosed, conn, connCloses,
          closeRes, wpc, wreq, wres>>

driverVars == <<data, updir, blobs, links>>

frameVars == <<pc, dgst, canonical, result>>

\* newGrpcSink: the connection is dialled, closed is left at its zero value.
SinkInit ==
    /\ sinkClosed = FALSE
    /\ conn = "open"
    /\ connCloses = 0
    /\ closeRes = "none"
    /\ wpc = [w \in Writers |-> "idle"]
    /\ wreq = [w \in Writers |-> NoRequest]
    /\ wres = [w \in Writers |-> "none"]

Init ==
    /\ data = [s \in Sessions |-> Absent]
    /\ updir = [s \in Sessions |-> TRUE]
    /\ blobs = [d \in Digests |-> Absent]
    /\ links = [k \in Repos \X Digests |-> NoDigest]
    /\ repo = [s \in Sessions |-> "r1"]
    /\ closed = [s \in Sessions |-> FALSE]
    /\ pc = [s \in Sessions |-> "idle"]
    /\ dgst = [s \in Sessions |-> NoDigest]
    /\ canonical = [s \in Sessions |-> NoDigest]
    /\ result = [s \in Sessions |-> "none"]
    /\ cresult = [s \in Sessions |-> "none"]
    /\ terminated = [s \in Sessions |-> FALSE]
    /\ SinkInit

\* ---------------------------------------------------------------- helpers
\* newFileReader: a missing path reads as zero bytes.
ReadAll(s) == IF data[s] = Absent THEN <<>> ELSE data[s]

Stat(content) == IF content = Absent THEN "notfound" ELSE "ok"

\* layerStore.Fetch resolves the digest at its blob path.
Fetch(d) == Stat(blobs[d])

\* Finish returns r.
Return(s, r) ==
    /\ pc' = [pc EXCEPT ![s] = "idle"]
    /\ result' = [result EXCEPT ![s] = r]
    /\ terminated' = [terminated EXCEPT ![s] = @ \/ r = "ok"]
    /\ canonical' = [canonical EXCEPT ![s] = NoDigest]

Goto(s, p) ==
    /\ pc' = [pc EXCEPT ![s] = p]
    /\ UNCHANGED <<dgst, canonical, result, terminated>>

\* ------------------------------------------------------------------ write
\* fileWriter.Write: append to the scratch path; refused once closed.
Write(s, b) ==
    /\ ~closed[s]
    /\ Len(ReadAll(s)) < MaxLen
    /\ data' = [data EXCEPT ![s] = Append(ReadAll(s), b)]
    /\ updir' = [updir EXCEPT ![s] = TRUE]
    /\ UNCHANGED <<blobs, links, repo, sinkVars, closed, frameVars, cresult, terminated>>

\* ----------------------------------------------------------------- Finish
\* Finish is called; validateLayer checks the tarsum version of the digest
\* and binds the verifier to it.
FinishCall(s, d) ==
    /\ pc[s] = "idle"
    /\ LET version == GetVersionFromTarsum(d)
       IN  IF version = "error"
           THEN /\ Return(s, "notversion")
                /\ dgst' = [dgst EXCEPT ![s] = NoDigest]
           ELSE IF ~VersionSupported(version)
           THEN /\ Return(s, "unsupported")
                /\ dgst' = [dgst EXCEPT ![s] = NoDigest]
           ELSE /\ pc' = [pc EXCEPT ![s] = "read"]
                /\ dgst' = [dgst EXCEPT ![s] = d]
                /\ result' = [result EXCEPT ![s] = "none"]
                /\ UNCHANGED <<canonical, terminated>>
    /\ UNCHANGED <<driverVars, repo, sinkVars, closed, cresult>>

\* Mutant: the canonical digest is returned without asking the verifier.
ValidateReadUnchecked(s) ==
    /\ pc[s] = "read"
    /\ pc' = [pc EXCEPT ![s] = "statBlob"]
    /\ canonical' = [canonical EXCEPT ![s] = FromTarArchive(ReadAll(s))]
    /\ UNCHANGED <<dgst, result, terminated>>
    /\ UNCHANGED <<driverVars, repo, sinkVars, closed, cresult>>

\* validateLayer: read the scratch file, verify it, compute the canonical digest.
ValidateRead(s) ==
    /\ pc[s] = "read"
    /\ LET b == ReadAll(s)
       IN  IF Verified(dgst[s], b)
           THEN /\ pc' = [pc EXCEPT ![s] = "statBlob"]
                /\ canonical' = [canonical EXCEPT ![s] = FromTarArchive(b)]
                /\ UNCHANGED <<dgst, result, terminated>>
           ELSE /\ Return(s, "mismatch")
                /\ UNCHANGED dgst
    /\ UNCHANGED <<driverVars, repo, sinkVars, closed, cresult>>

\* Mutant: the existence check does not short-circuit the move.
BlobStatNextAlwaysMove(st) == "statData"

\* moveLayer: Stat(blobPath); an existing blob makes the move a no-op.
BlobStatNext(st) == IF st = "ok" THEN "link" ELSE "statData"

\* Mutant: an existing blob is reported as a conflict.
MoveStatBlobConflict(s) ==
    /\ pc[s] = "statBlob"
    /\ IF Stat(blobs[canonical[s]]) = "ok"
       THEN /\ Return(s, "ioerr")
            /\ UNCHANGED dgst
       ELSE Goto(s, "statData")
    /\ UNCHANGED <<driverVars, repo, sinkVars, closed, cresult>>

MoveStatBlob(s) ==
    /\ pc[s] = "statBlob"
    /\ Goto(s, BlobStatNext(Stat(blobs[canonical[s]])))
    /\ UNCHANGED <<driverVars, repo, sinkVars, closed, cresult>>

\* moveLayer: Stat(lw.path); a missing scratch file is replaced by a
\* zero-length blob only for the empty-tar digest.
\* Mutant: no zero-length blob is synthesized; the move is always tried.
DataStatNextAlwaysMove(st, d) == "move"

\* Mutant: a zero-length blob is synthesized for any missing scratch file.
DataStatNextSynthesize(st, d) == IF st = "notfound" THEN "putEmpty" ELSE "move"

DataStatNext(st, d) ==
    IF st = "notfound" /\ d = DigestTarSumV1EmptyTar THEN "putEmpty" ELSE "move"

MoveStatData(s) ==
    /\ pc[s] = "statData"
    /\ Goto(s, DataStatNext(Stat(data[s]), canonical[s]))
    /\ UNCHANGED <<driverVars, repo, sinkVars, closed, cresult>>

\* moveLayer: PutContent(blobPath, []byte{}).
MovePutEmpty(s) ==
    /\ pc[s] = "putEmpty"
    /\ blobs' = [blobs EXCEPT ![canonical[s]] = <<>>]
    /\ Goto(s, "link")
    /\ UNCHANGED <<data, updir, links, repo, sinkVars, closed, cresult>>

\* Mutant: the error of the Move is dropped and Finish goes on to link.
MoveMoveIgnoreError(s) ==
    /\ pc[s] = "move"
    /\ IF data[s] = Absent
       THEN UNCHANGED <<data, blobs>>
       ELSE /\ blobs' = [blobs EXCEPT ![canonical[s]] = data[s]]
            /\ data' = [data EXCEPT ![s] = Absent]
    /\ Goto(s, "link")
    /\ UNCHANGED <<updir, links, repo, sinkVars, closed, cresult>>

\* moveLayer: Move(lw.path, blobPath); fails when the source is missing.
MoveMove(s) ==
    /\ pc[s] = "move"
    /\ IF data[s] = Absent
       THEN /\ Return(s, "notfound")
            /\ UNCHANGED <<data, blobs, dgst>>
       ELSE /\ blobs' = [blobs EXCEPT ![canonical[s]] = data[s]]
            /\ data' = [data EXCEPT ![s] = Absent]
            /\ Goto(s, "link")
    /\ UNCHANGED <<updir, links, repo, sinkVars, closed, cresult>>

\* linkLayer: PutContent(layerLinkPath, []byte(digest)).
LinkContent(d) == d

LinkLayer(s) ==
    /\ pc[s] = "link"
    /\ links' = [links EXCEPT ![<<repo[s], canonical[s]>>] = LinkContent(canonical[s])]
    /\ Goto(s, "cleanup")
    /\ UNCHANGED <<data, updir, blobs, repo, sinkVars, closed, cresult>>

\* Mutant: the data path is deleted instead of its directory.
DeleteDataOnly(s) ==
    /\ data' = [data EXCEPT ![s] = Absent]
    /\ UNCHANGED updir

\* Mutant: the directory holding the uploads of the whole repository is deleted.
DeleteUploadsRoot(s) ==
    /\ data' = [t \in Sessions |-> IF repo[t] = repo[s] THEN Absent ELSE data[t]]
    /\ updir' = [t \in Sessions |-> IF repo[t] = repo[s] THEN FALSE ELSE updir[t]]

\* removeResources: Delete(dirPath), tolerating a directory already gone.
DeleteDir(s) ==
    /\ data' = [data EXCEPT ![s] = Absent]
    /\ updir' = [updir EXCEPT ![s] = FALSE]

\* driver.Delete(dirPath) on a driver that works: a missing directory is
\* reported as PathNotFoundError.
DeleteOutcome(s) == IF updir[s] THEN "ok" ELSE "notfound"

\* Mutant: a directory already gone is reported to the caller.
RemoveResourcesErrorStrict(e) == e

\* removeResources: what it returns for the outcome of the Delete.
RemoveResourcesError(e) == IF e = "notfound" THEN "ok" ELSE e

\* Mutant: Finish returns the layer without removing the upload's resources.
RemoveResourcesSkipped(s) ==
    /\ pc[s] = "cleanup"
    /\ Return(s, Fetch(canonical[s]))
    /\ UNCHANGED <<driverVars, repo, sinkVars, closed, cresult, dgst>>

\* Finish: removeResources, then return layerStore.Fetch(canonical).
RemoveResources(s) ==
    /\ pc[s] = "cleanup"
    /\ DeleteDir(s)
    /\ LET err == RemoveResourcesError(DeleteOutcome(s))
       IN  Return(s, IF err = "ok" THEN Fetch(canonical[s]) ELSE err)
    /\ UNCHANGED <<blobs, links, repo, sinkVars, closed, cresult, dgst>>

\* Mutant: a failing call removes the upload's resources before returning.
FinishDriverErrorCleanup(s) ==
    /\ pc[s] # "idle"
    /\ DeleteDir(s)
    /\ Return(s, "ioerr")
    /\ UNCHANGED <<blobs, links, repo, sinkVars, closed, cresult, dgst>>

\* Mutant: a failing call takes back the link written by the same Finish.
FinishDriverErrorRollback(s) ==
    /\ pc[s] # "idle"
    /\ links' = IF pc[s] = "cleanup"
                THEN [links EXCEPT ![<<repo[s], canonical[s]>>] = NoDigest]
                ELSE links
    /\ Return(s, "ioerr")
    /\ UNCHANGED <<data, updir, blobs, repo, sinkVars, closed, cresult, dgst>>

\* The driver call Finish is at fails with an error other than not-found.
FinishDriverError(s) ==
    /\ pc[s] # "idle"
    /\ Return(s, "ioerr")
    /\ UNCHANGED <<driverVars, repo, sinkVars, closed, cresult, dgst>>

\* ----------------------------------------------------------------- Cancel
\* Cancel: removeResources, then lw.Close().
Cancel(s) ==
    /\ DeleteDir(s)
    /\ LET err == RemoveResourcesError(DeleteOutcome(s))
       IN  /\ closed' = [closed EXCEPT ![s] = @ \/ err = "ok"]
           /\ cresult' = [cresult EXCEPT ![s] = err]
           /\ terminated' = [terminated EXCEPT ![s] = @ \/ err = "ok"]
    /\ UNCHANGED <<blobs, links, repo, sinkVars, pc, dgst, canonical, result>>

\* Cancel: Delete fails with an error other than not-found.
CancelDriverError(s) ==
    /\ cresult' = [cresult EXCEPT ![s] = "ioerr"]
    /\ UNCHANGED <<driverVars, repo, sinkVars, closed, frameVars, terminated>>

\* ------------------------------------------------------- grpcSink.Write
\* Write: build the request and call g.client.Publish.
SinkWrite(w, e) ==
    /\ wpc[w] = "idle"
    /\ wpc' = [wpc EXCEPT ![w] = "publish"]
    /\ wreq' = [wreq EXCEPT ![w] = ToGrpcEvents(e)]
    /\ wres' = [wres EXCEPT ![w] = "none"]
    /\ UNCHANGED <<sinkClosed, conn, connCloses, closeRes, layerVars>>

\* What Publish returns on a connection in the given state.
PublishResult(c) == IF c = "open" THEN "ok" ELSE "connclosing"

\* Write: Publish returns and Write returns its error.
SinkPublishReturn(w) ==
    /\ wpc[w] = "publish"
    /\ wpc' = [wpc EXCEPT ![w] = "idle"]
    /\ wreq' = [wreq EXCEPT ![w] = NoRequest]
    /\ wres' = [wres EXCEPT ![w] = PublishResult(conn)]
    /\ UNCHANGED <<sinkClosed, conn, connCloses, closeRes, layerVars>>

\* ------------------------------------------------------- grpcSink.Close
\* What conn.Close() returns on a connection in the given state.
ConnCloseResult(c) == IF c = "open" THEN "ok" ELSE "connclosing"

\* Close: return g.conn.Close().
SinkClose ==
    /\ connCloses < MaxCloses
    /\ connCloses' = connCloses + 1
    /\ conn' = "closed"
    /\ closeRes' = ConnCloseResult(conn)
    /\ UNCHANGED <<sinkClosed, wpc, wreq, wres, layerVars>>

\* ------------------------------------------------------------------- spec
Next ==
    \E s \in Sessions :
        \/ \E b \in ByteVals : Write(s, b)
        \/ \E d \in ClaimedDigests : FinishCall(s, d)
        \/ ValidateRead(s)
        \/ MoveStatBlob(s)
        \/ MoveStatData(s)
        \/ MovePutEmpty(s)
        \/ MoveMove(s)
        \/ LinkLayer(s)
        \/ RemoveResources(s)
        \/ Cancel(s)

Spec == Init /\ [][Next]_vars

\* Two sessions that each hold some content (none, or bytes already written)
\* and call Finish once with the digest of that content; nothing else runs.
InitRace ==
    /\ data \in [Sessions -> {Absent} \cup (Contents \ {<<>>})]
    /\ updir = [s \in Sessions |-> TRUE]
    /\ blobs = [d \in Digests |-> Absent]
    /\ links = [k \in Repos \X Digests |-> NoDigest]
    /\ repo = [s \in Sessions |-> "r1"]
    /\ closed = [s \in Sessions |-> FALSE]
    /\ pc = [s \in Sessions |-> "idle"]
    /\ dgst = [s \in Sessions |-> NoDigest]
    /\ canonical = [s \in Sessions |-> NoDigest]
    /\ result = [s \in Sessions |-> "none"]
    /\ cresult = [s \in Sessions |-> "none"]
    /\ terminated = [s \in Sessions |-> FALSE]
    /\ SinkInit

FirstFinish(s) ==
    /\ dgst[s] = NoDigest
    /\ FinishCall(s, FromTarArchive(ReadAll(s)))

NextRace ==
    \E s \in Sessions :
        \/ FirstFinish(s)
        \/ ValidateRead(s)
        \/ MoveStatBlob(s)
        \/ MoveStatData(s)
        \/ MovePutEmpty(s)
        \/ MoveMove(s)
        \/ LinkLayer(s)
        \/ RemoveResources(s)

SpecRace == InitRace /\ [][NextRace]_vars

\* One session whose driver calls may fail.
FaultSessions == {"u1"}

NextFault ==
    \E s \in FaultSessions :
        \/ \E b \in ByteVals : Write(s, b)
        \/ \E d \in ClaimedDigests : FinishCall(s, d)
        \/ ValidateRead(s)
        \/ MoveStatBlob(s)
        \/ MoveStatData(s)
        \/ MovePutEmpty(s)
        \/ MoveMove(s)
        \/ LinkLayer(s)
        \/ RemoveResources(s)
        \/ FinishDriverError(s)
        \/ Cancel(s)
        \/ CancelDriverError(s)

SpecFault == Init /\ [][NextFault]_vars

\* Sessions that call Finish with the digest of the content they hold and,
\* when a driver call failed, call Finish again with the same digest.
RetryFinish(s) ==
    /\ result[s] = "ioerr"
    /\ FinishCall(s, dgst[s])

NextRetry ==
    \E s \in Sessions :
        \/ FirstFinish(s)
        \/ RetryFinish(s)
        \/ ValidateRead(s)
        \/ MoveStatBlob(s)
        \/ MoveStatData(s)
        \/ MovePutEmpty(s)
        \/ MoveMove(s)
        \/ LinkLayer(s)
        \/ RemoveResources(s)
        \/ FinishDriverError(s)

SpecRetry == InitRace /\ [][NextRetry]_vars

\* The notification sink with its concurrent callers.
NextSink ==
    \/ \E w \in Writers : \E e \in EventBatches : SinkWrite(w, e)
    \/ \E w \in Writers : SinkPublishReturn(w)
    \/ SinkClose

SpecSink == Init /\ [][NextSink]_vars

\* ----------------------------------------------------------------- claims
StepOf(s, from) == pc[s] = from /\ pc'[s] # from

\* C1 (as claimed): every blob present at blobPath(D) holds bytes whose
\* canonical digest is D, under any interleaving of write, Finish and Cancel.
C1_ContentAddressable ==
    \A d \in Digests : blobs[d] # Absent => FromTarArchive(blobs[d]) = d

\* C2 (as claimed): once a blob exists at blobPath(D), no later step changes
\* the bytes stored there.
C2_BlobImmutable ==
    [][\A d \in Digests : blobs[d] # Absent => blobs'[d] = blobs[d]]_vars

\* C3: two sessions holding byte-identical content that both call Finish with
\* its digest, interleaved arbitrarily, both return success, and afterwards
\* exactly one blob exists, at blobPath(that digest).
C3_RaceBothSucceed ==
    \A s, t \in Sessions :
        (s # t /\ pc[s] = "idle" /\ pc[t] = "idle"
             /\ dgst[s] # NoDigest /\ dgst[s] = dgst[t])
        => /\ result[s] = "ok"
           /\ result[t] = "ok"
           /\ {d \in Digests : blobs[d] # Absent} = {dgst[s]}

C3_Witness ==
    \E s, t \in Sessions :
        /\ s # t
        /\ pc[s] = "idle" /\ pc[t] = "idle"
        /\ dgst[s] # NoDigest /\ dgst[s] = dgst[t]
        /\ result[s] = "ok" /\ result[t] = "ok"
        /\ blobs[dgst[s]] # Absent

\* C4 (as claimed): the destination blobPath(D) is written (Move or
\* PutContent) at most once: no run writes a blob path that already holds a blob.
C4_WrittenAtMostOnce ==
    [][\A s \in Sessions :
          (pc[s] \in {"move", "putEmpty"} /\ pc'[s] = "link")
          => blobs[canonical[s]] = Absent]_vars

\* C4 (amended): a moveLayer run whose existence check finds a blob at
\* blobPath(D) writes nothing and returns success (Finish goes on to link),
\* and neither the link nor the cleanup phase writes a blob.
C4_ExistingBlobNoop ==
    [][\A s \in Sessions :
          /\ (StepOf(s, "statBlob") /\ blobs[canonical[s]] # Absent)
             => (pc'[s] = "link" /\ blobs' = blobs)
          /\ (StepOf(s, "link") \/ StepOf(s, "cleanup")) => blobs' = blobs]_vars

C4_Witness ==
    \E s \in Sessions :
        /\ pc[s] = "link"
        /\ blobs[canonical[s]] # Absent
        /\ data[s] # Absent

C7_MismatchGate ==
    [][\A s \in Sessions :
          (StepOf(s, "read") /\ FromTarArchive(ReadAll(s)) # dgst[s])
          => /\ pc'[s] = "idle"
             /\ result'[s] = "mismatch"
             /\ UNCHANGED <<data, updir, blobs, links>>
             /\ data[s] # Absent => (data'[s] = data[s] /\ updir'[s])]_vars

C7_Witness ==
    \E s \in Sessions :
        /\ pc[s] = "idle" /\ result[s] = "mismatch"
        /\ data[s] # Absent /\ updir[s]
        /\ FromTarArchive(data[s]) # dgst[s]

\* C8: a session with no written bytes and no scratch file, finished with
\* the empty-tar digest, succeeds and leaves a zero-length blob at
\* blobPath(empty-tar digest); it never issues the Move.
C8_EmptyUpload ==
    \A s \in Sessions :
        dgst[s] = DigestTarSumV1EmptyTar
        => /\ pc[s] # "move"
           /\ blobs[DigestTarSumV1EmptyTar] \in {Absent, <<>>}
           /\ pc[s] = "idle"
              => (result[s] = "ok" /\ blobs[DigestTarSumV1EmptyTar] = <<>>)

C8_Witness ==
    \E s \in Sessions :
        /\ dgst[s] = DigestTarSumV1EmptyTar
        /\ pc[s] = "idle" /\ result[s] = "ok"
        /\ blobs[DigestTarSumV1EmptyTar] = <<>>

\* C9: when Cancel returns success the session's scratch directory and every
\* file under it are absent, and the blobs and the links are exactly what
\* they were before the call.
C9_CancelFrame ==
    [][\A s \in Sessions :
          (~closed[s] /\ closed'[s])
          => /\ cresult'[s] = "ok"
             /\ data'[s] = Absent
             /\ ~updir'[s]
             /\ blobs' = blobs
             /\ links' = links]_vars

C9_Witness ==
    \E s \in Sessions :
        /\ closed[s] /\ cresult[s] = "ok"
        /\ data[s] = Absent /\ ~updir[s]
        /\ \E d \in Digests : blobs[d] # Absent /\ links[<<repo[s], d>>] # NoDigest

\* C10 (as claimed): after a Finish or Cancel of a session has returned
\* success, no later Finish on it starts the validate phase and no later
\* Cancel on it runs the cleanup and close again.
C10_TerminalCallsRefused ==
    [][\A s \in Sessions :
          (terminated[s] /\ pc[s] = "idle")
          => (pc'[s] = "idle" /\ closed'[s] = closed[s])]_vars

\* C11 (as claimed): Finish and Cancel of one session never interleave: while
\* a Finish is between two of its driver calls, no Cancel of the same session
\* deletes the scratch directory or closes the session.
C11_FinishCancelExclusive ==
    [][\A s \in Sessions :
          (pc[s] # "idle" /\ pc'[s] = pc[s])
          => /\ closed'[s] = closed[s]
             /\ updir[s] => updir'[s]
             /\ data[s] # Absent => data'[s] # Absent]_vars

\* C12: when the Delete of the cleanup phase fails with an error other than
\* not-found, Finish returns that error, and the blob at blobPath(canonical)
\* and the link of the repository both exist and are left as they are.
C12_PartialFailureWindow ==
    [][\A s \in Sessions :
          (pc[s] = "cleanup" /\ pc'[s] = "idle" /\ result'[s] # "ok")
          => /\ result'[s] = "ioerr"
             /\ blobs'[canonical[s]] # Absent
             /\ links'[<<repo[s], canonical[s]>>] = canonical[s]
             /\ blobs' = blobs
             /\ links' = links]_vars

C12_Witness ==
    \E s \in Sessions :
        /\ pc[s] = "idle" /\ result[s] = "ioerr"
        /\ data[s] = Absent /\ updir[s]
        /\ dgst[s] # DigestTarSumV1EmptyTar
        /\ blobs[dgst[s]] # Absent
        /\ links[<<repo[s], dgst[s]>>] = dgst[s]

\* The order of the driver calls within one Finish.
PhaseSteps ==
    {<<"idle", "read">>, <<"read", "statBlob">>, <<"statBlob", "statData">>,
     <<"statBlob", "link">>, <<"statData", "putEmpty">>, <<"statData", "move">>,
     <<"putEmpty", "link">>, <<"move", "link">>, <<"link", "cleanup">>}

\* C13: the phases of one Finish run in the order validate, move, link,
\* cleanup; a link is written only in the link phase and a blob only in the
\* move phase; a Finish that returns an error issues no further driver call
\* and the step on which it fails leaves every path of the driver as it was.
C13_PhaseOrder ==
    [][\A s \in Sessions :
          /\ pc'[s] # pc[s] => (pc'[s] = "idle" \/ <<pc[s], pc'[s]>> \in PhaseSteps)
          /\ (pc[s] # "idle" /\ pc'[s] = "idle" /\ result'[s] # "ok")
             => UNCHANGED <<data, updir, blobs, links>>
          /\ links' # links => \E t \in Sessions : StepOf(t, "link")
          /\ blobs' # blobs
             => \E t \in Sessions : StepOf(t, "move") \/ StepOf(t, "putEmpty")]_vars

C13_Witness ==
    \E s \in Sessions :
        /\ pc[s] = "idle" /\ result[s] = "ioerr"
        /\ data[s] # Absent /\ updir[s]
        /\ dgst[s] = FromTarArchive(data[s])
        /\ blobs[dgst[s]] = Absent
        /\ links[<<repo[s], dgst[s]>>] = NoDigest

\* C14: when the scratch file is missing and the canonical digest is not the
\* empty-tar digest, moveLayer writes no zero-length blob but goes on to the
\* Move; the Move fails, its error is the result of Finish, and that step
\* creates no blob and writes no link.
C14_MissingScratchFails ==
    [][\A s \in Sessions :
          /\ (StepOf(s, "statData") /\ data[s] = Absent
                 /\ canonical[s] # DigestTarSumV1EmptyTar)
             => (pc'[s] = "move" /\ blobs' = blobs /\ links' = links)
          /\ (StepOf(s, "move") /\ data[s] = Absent)
             => /\ pc'[s] = "idle"
                /\ result'[s] = "notfound"
                /\ blobs' = blobs
                /\ links' = links]_vars

C14_Witness ==
    \E s \in Sessions :
        /\ pc[s] = "idle" /\ result[s] = "notfound"
        /\ dgst[s] # NoDigest /\ dgst[s] # DigestTarSumV1EmptyTar
        /\ blobs[dgst[s]] = Absent
        /\ links[<<repo[s], dgst[s]>>] = NoDigest

\* C15: a step of one session (a write, a step of its Finish, its Cancel)
\* leaves the scratch directory and the scratch content of every other
\* session unchanged.
C15_SessionIsolation ==
    [][\A s, t \in Sessions :
          (s # t /\ (\/ pc'[s] # pc[s]
                     \/ closed'[s] # closed[s]
                     \/ cresult'[s] # cresult[s]
                     \/ data'[s] # data[s]
                     \/ updir'[s] # updir[s]))
          => (data'[t] = data[t] /\ updir'[t] = updir[t])]_vars

C15_Witness ==
    \E s, t \in Sessions :
        /\ s # t /\ repo[s] = repo[t]
        /\ closed[s] /\ cresult[s] = "ok" /\ ~updir[s]
        /\ ~closed[t] /\ data[t] # Absent /\ updir[t]

\* C16 (as claimed): a Finish that runs with no failing driver call, be it
\* the first call or a retry with the same digest after an I/O error,
\* returns success: a Finish never returns anything but success or the I/O
\* error of a failing driver call.
C16_RetrySucceeds ==
    \A s \in Sessions : result[s] \in {"none", "ok", "ioerr"}

\* C17: removeResources never returns the not-found error of the Delete: a
\* Cancel returns either success, with the scratch directory absent and the
\* session closed, or the driver's other error, with nothing changed; a
\* Cancel on a scratch directory already absent that meets no other error
\* returns success; the cleanup of Finish returns success or that other error.
C17_CleanupToleratesAbsence ==
    [][\A s \in Sessions :
          /\ (cresult'[s] # cresult[s] \/ closed'[s] # closed[s])
             => \/ /\ cresult'[s] = "ok"
                   /\ closed'[s]
                   /\ ~updir'[s]
                   /\ data'[s] = Absent
                \/ /\ cresult'[s] = "ioerr"
                   /\ UNCHANGED <<data, updir, blobs, links, closed>>
          /\ (~updir[s] /\ cresult'[s] # cresult[s] /\ cresult'[s] # "ioerr")
             => (cresult'[s] = "ok" /\ closed'[s])
          /\ (StepOf(s, "cleanup") /\ pc'[s] = "idle")
             => result'[s] \in {"ok", "ioerr"}]_vars

C17_Witness ==
    \E s \in Sessions :
        /\ pc[s] = "idle" /\ result[s] = "ok"
        /\ closed[s] /\ cresult[s] = "ok"
        /\ data[s] = Absent /\ ~updir[s]

\* C18: every link path that has been written holds its own digest D, and a
\* blob exists at blobPath(D).
C18_LinkImpliesBlob ==
    \A r \in Repos : \A d \in Digests :
        links[<<r, d>>] # NoDigest
        => (links[<<r, d>>] = d /\ blobs[d] # Absent)

C18_Witness ==
    \E s \in Sessions :
        /\ pc[s] = "cleanup"
        /\ links[<<repo[s], canonical[s]>>] = canonical[s]
        /\ blobs[canonical[s]] # Absent

\* C19 (as claimed): a Write that starts after Close has returned does not
\* call Publish and returns the sink-closed error.
C19_WriteAfterCloseRefused ==
    [][\A w \in Writers :
          (conn = "closed" /\ wpc[w] = "idle"
               /\ (wpc'[w] # "idle" \/ wres'[w] # wres[w]))
          => (wpc'[w] = "idle" /\ wres'[w] = "sinkclosed")]_vars

\* C20 (as claimed): every Close returns no error, the connection is closed
\* by at most one conn.Close() call, and no Close closes the connection
\* while a Publish call is in flight.
C20_CloseIdempotent ==
    [][connCloses' # connCloses
          => /\ closeRes' = "ok"
             /\ connCloses' <= 1
             /\ \A w \in Writers : wpc[w] # "publish"]_vars

====
